---------------------------- MODULE Spec2Model ----------------------------
(***************************************************************************)
(* LDAP debug API of pkg/api/ldap_debug.go: the user sync handler          *)
(* (PostSyncUserWithLDAP), the user mapping preview (GetUserFromLDAP with  *)
(* LDAPUserDTO.FetchOrgs and isMatchToLDAPGroup) and splitName.            *)
(*                                                                         *)
(* A Go pointer is modelled as a sequence of length at most one: <<>> is   *)
(* nil, <<v>> points to v.  A Go string that is only compared is a TLA+    *)
(* string; a string that is split (a display name) is a sequence of        *)
(* one-character strings.  A Go map read with m[k] is a total function     *)
(* that yields the zero value for a key that was never set.                *)
(***************************************************************************)
EXTENDS Integers, Sequences, FiniteSets, TLC

VARIABLES
    pc,              \* position of the running handler
    resp,            \* the Response returned, [status |-> 0] while running
    AdminUser,       \* setting.AdminUser
    LDAPAllowSignup, \* setting.LDAPAllowSignup
    queryResult,     \* query.Result of GetUserByIdQuery (pointer)
    user,            \* user returned by ldapServer.User (pointer)
    err,             \* err of the last collaborator call
    fetchCalls,      \* bus.Dispatch of GetUserByIdQuery, in order (user ids)
    lookupCalls,     \* ldapServer.User calls, in order, with their answers
    disableCalls,    \* login.DisableExternalUser calls, in order (logins)
    upsertCalls,     \* bus.Dispatch of UpsertUserCommand, in order
    groups,          \* serverConfig.Groups
    name,            \* first result of splitName(user.Name)
    surname,         \* second result of splitName(user.Name)
    OrgRoles,        \* u.OrgRoles of the LDAPUserDTO
    qResult,         \* q.Result of SearchOrgsQuery
    fullName         \* argument of splitName

vars == <<pc, resp, AdminUser, LDAPAllowSignup, queryResult, user, err,
          fetchCalls, lookupCalls, disableCalls, upsertCalls,
          groups, name, surname, OrgRoles, qResult, fullName>>

syncVars == <<queryResult, fetchCalls, lookupCalls, disableCalls, upsertCalls>>
userVars == <<groups, name, surname, OrgRoles, qResult>>

----------------------------------------------------------------------------
(* Bounds of the model *)

\* longest display name, in characters
MaxNameLen == 5
\* most mapping rules in serverConfig.Groups
MaxRules == 2
\* most organizations in a SearchOrgsQuery result
MaxOrgs == 2

----------------------------------------------------------------------------
(* Values *)

Logins == {"admin", "alice", "bob"}
UserIds == {1, 2}
OrgIds == {1, 2}
\* models.RoleType; "" is the zero value
RoleTypes == {"", "Viewer", "Admin"}
GroupDNs == {"cn=a", "cn=b"}
OrgNames == {"", "Main"}
Chars == {" ", "a", "b"}
Whitespace == {" "}

SeqsUpTo(S, n) == UNION {[1..k -> S] : k \in 0..n}

\* display names the directory reports in the handlers
DisplayNames == {<<"a">>, <<"a", " ", "b">>}

ExternalUserInfo ==
    [Login : Logins, Name : DisplayNames, OrgRoles : [OrgIds -> RoleTypes]]

GroupToOrgRole == [GroupDN : GroupDNs, OrgID : OrgIds, OrgRole : RoleTypes]

OrgDTO == [Id : OrgIds, Name : OrgNames]

NoResponse == [status |-> 0, body |-> ""]

Error(status, message) == [status |-> status, body |-> message]

JSON(status, body) == [status |-> status, body |-> body]

----------------------------------------------------------------------------
(* PostSyncUserWithLDAP *)

SyncInit ==
    /\ pc = "IsEnabled"
    /\ resp = NoResponse
    /\ AdminUser \in Logins
    /\ LDAPAllowSignup \in BOOLEAN
    /\ queryResult = <<>>
    /\ user = <<>>
    /\ err = "nil"
    /\ fetchCalls = <<>>
    /\ lookupCalls = <<>>
    /\ disableCalls = <<>>
    /\ upsertCalls = <<>>
    /\ groups = <<>>
    /\ name = <<>>
    /\ surname = <<>>
    /\ OrgRoles = <<>>
    /\ qResult = <<>>
    /\ fullName = <<>>

\* if !ldap.IsEnabled() { return Error(400, ...) }
SyncIsEnabled ==
    /\ pc = "IsEnabled"
    /\ \E enabled \in BOOLEAN :
         IF enabled
         THEN /\ pc' = "getLDAPConfig"
              /\ resp' = resp
         ELSE /\ pc' = "done"
              /\ resp' = Error(400, "LDAP is not enabled")
    /\ UNCHANGED <<AdminUser, LDAPAllowSignup, user, err, syncVars, userVars, fullName>>

\* ldapConfig, err := getLDAPConfig(); if err != nil { return Error(400, ...) }
SyncGetLDAPConfig ==
    /\ pc = "getLDAPConfig"
    /\ \E e \in {"nil", "error"} :
         /\ err' = e
         /\ IF e = "nil"
            THEN /\ pc' = "DispatchByValue"
                 /\ resp' = resp
            ELSE /\ pc' = "done"
                 /\ resp' = Error(400, "Failed to obtain the LDAP configuration. Please verify the configuration and try again.")
    /\ UNCHANGED <<AdminUser, LDAPAllowSignup, user, syncVars, userVars, fullName>>

\* userId := c.ParamsInt64(":id"); query := ...; err = bus.Dispatch(query)
\* The query is passed by value and err is shadowed by the next statement:
\* whatever this dispatch returns is discarded.
SyncDispatchByValue ==
    /\ pc = "DispatchByValue"
    /\ \E userId \in UserIds, e \in {"nil", "ErrUserNotFound", "error"} :
         /\ fetchCalls' = Append(fetchCalls, userId)
         /\ err' = e
    /\ pc' = "GetUserById"
    /\ UNCHANGED <<resp, AdminUser, LDAPAllowSignup, user, queryResult,
                   lookupCalls, disableCalls, upsertCalls, userVars, fullName>>

GetUserByIdResponse_ErrorSwallowed(e) == NoResponse

\* if err := bus.Dispatch(&query); err != nil {
\*     if err == models.ErrUserNotFound { return Error(404, ...) }
\*     return Error(500, "Failed to get user", err) }
GetUserByIdResponse(e) ==
    IF e # "nil"
    THEN IF e = "ErrUserNotFound"
         THEN Error(404, "User not found")
         ELSE Error(500, "Failed to get user")
    ELSE NoResponse

\* bus.Dispatch(&query): the handler fills query.Result when it succeeds
SyncGetUserById ==
    /\ pc = "GetUserById"
    /\ LET userId == fetchCalls[Len(fetchCalls)] IN
       /\ fetchCalls' = Append(fetchCalls, userId)
       /\ \E e \in {"nil", "ErrUserNotFound", "error"} :
            /\ IF e = "nil"
               THEN \E l \in Logins : queryResult' = <<[Id |-> userId, Login |-> l]>>
               ELSE queryResult' = queryResult
            /\ resp' = GetUserByIdResponse(e)
            /\ pc' = IF GetUserByIdResponse(e) # NoResponse THEN "done" ELSE "User"
    /\ UNCHANGED <<AdminUser, LDAPAllowSignup, user, err,
                   lookupCalls, disableCalls, upsertCalls, userVars, fullName>>

\* ldapServer := newLDAP(ldapConfig.Servers)
\* user, _, err := ldapServer.User(query.Result.Login)
\* lookupCalls logs the username asked for and what the directory answered.
SyncUser ==
    /\ pc = "User"
    /\ LET login == queryResult[1].Login IN
       \/ \E u \in ExternalUserInfo :
            /\ u.Login = login
            /\ user' = <<u>>
            /\ err' = "nil"
            /\ lookupCalls' = Append(lookupCalls,
                                     [username |-> login, user |-> <<u>>, err |-> "nil"])
       \/ \E e \in {"ErrCouldNotFindUser", "error"} :
            /\ user' = <<>>
            /\ err' = e
            /\ lookupCalls' = Append(lookupCalls,
                                     [username |-> login, user |-> <<>>, err |-> e])
    /\ pc' = "Decide"
    /\ UNCHANGED <<resp, AdminUser, LDAPAllowSignup, queryResult, fetchCalls,
                   disableCalls, upsertCalls, userVars, fullName>>

IsUserNotFound_WrongSentinel(e) == FALSE

\* if err != nil { if err == ldap.ErrCouldNotFindUser {
IsUserNotFound(e) == e # "nil" /\ e = "ErrCouldNotFindUser"

IsSuperAdmin_NoGuard(login) == FALSE

\* if setting.AdminUser == query.Result.Login {
IsSuperAdmin(login) == AdminUser = login

\* The sync decision: refuse, disable, or go on to the upsert.  An error
\* other than ErrCouldNotFindUser leaves both ifs without returning.  What
\* login.DisableExternalUser returns is not looked at.
SyncDecide ==
    /\ pc = "Decide"
    /\ LET login == queryResult[1].Login IN
       IF IsUserNotFound(err)
       THEN IF IsSuperAdmin(login)
            THEN /\ pc' = "done"
                 /\ resp' = Error(400, "Refusing to sync grafana super admin - it would be disabled")
                 /\ disableCalls' = disableCalls
            ELSE /\ disableCalls' = Append(disableCalls, login)
                 /\ pc' = "done"
                 /\ resp' = JSON(200, "User disabled without any updates in the information")
       ELSE /\ pc' = "Upsert"
            /\ resp' = resp
            /\ disableCalls' = disableCalls
    /\ UNCHANGED <<AdminUser, LDAPAllowSignup, queryResult, user, err, fetchCalls,
                   lookupCalls, upsertCalls, userVars, fullName>>

UpsertUserCommand_SignupHardCoded(u) == [ExternalUser |-> u, SignupAllowed |-> TRUE]

\* upsertCmd := &models.UpsertUserCommand{ExternalUser: user,
\*                                        SignupAllowed: setting.LDAPAllowSignup}
UpsertUserCommand(u) == [ExternalUser |-> u, SignupAllowed |-> LDAPAllowSignup]

\* err = bus.Dispatch(upsertCmd); if err != nil { return Error(500, ...) }
\* return JSON(200, "user synced")
SyncUpsert ==
    /\ pc = "Upsert"
    /\ upsertCalls' = Append(upsertCalls, UpsertUserCommand(user))
    /\ \E e \in {"nil", "error"} :
         /\ err' = e
         /\ resp' = IF e # "nil"
                    THEN Error(500, "Failed to udpate the user")
                    ELSE JSON(200, "user synced")
    /\ pc' = "done"
    /\ UNCHANGED <<AdminUser, LDAPAllowSignup, queryResult, user, fetchCalls,
                   lookupCalls, disableCalls, userVars, fullName>>

SyncNext ==
    \/ SyncIsEnabled
    \/ SyncGetLDAPConfig
    \/ SyncDispatchByValue
    \/ SyncGetUserById
    \/ SyncUser
    \/ SyncDecide
    \/ SyncUpsert

SpecSync == SyncInit /\ [][SyncNext]_vars

----------------------------------------------------------------------------
(* splitName *)

\* util.SplitString: the whitespace-delimited tokens of str, in order
RECURSIVE SplitStringFrom(_, _, _)
SplitStringFrom(str, token, tokens) ==
    IF str = <<>>
    THEN IF token = <<>> THEN tokens ELSE Append(tokens, token)
    ELSE IF Head(str) \in Whitespace
         THEN SplitStringFrom(Tail(str), <<>>,
                              IF token = <<>> THEN tokens ELSE Append(tokens, token))
         ELSE SplitStringFrom(Tail(str), Append(token, Head(str)), tokens)

SplitString(str) == SplitStringFrom(str, <<>>, <<>>)

splitName_LastToken(fullname) ==
    LET names == SplitString(fullname) IN
    CASE Len(names) = 0 -> <<<<>>, <<>>>>
      [] Len(names) = 1 -> <<names[1], <<>>>>
      [] OTHER -> <<names[1], names[Len(names)]>>

\* splitName returns <<name, surname>>
splitName(fullname) ==
    LET names == SplitString(fullname) IN
    CASE Len(names) = 0 -> <<<<>>, <<>>>>
      [] Len(names) = 1 -> <<names[1], <<>>>>
      [] OTHER -> <<names[1], names[2]>>

NameInit ==
    /\ pc = "splitName"
    /\ fullName \in SeqsUpTo(Chars, MaxNameLen)
    /\ resp = NoResponse
    /\ AdminUser = "admin"
    /\ LDAPAllowSignup = FALSE
    /\ queryResult = <<>>
    /\ user = <<>>
    /\ err = "nil"
    /\ fetchCalls = <<>>
    /\ lookupCalls = <<>>
    /\ disableCalls = <<>>
    /\ upsertCalls = <<>>
    /\ groups = <<>>
    /\ name = <<>>
    /\ surname = <<>>
    /\ OrgRoles = <<>>
    /\ qResult = <<>>

\* name, surname := splitName(fullName)
NameSplit ==
    /\ pc = "splitName"
    /\ name' = splitName(fullName)[1]
    /\ surname' = splitName(fullName)[2]
    /\ pc' = "done"
    /\ UNCHANGED <<resp, AdminUser, LDAPAllowSignup, user, err, syncVars,
                   groups, OrgRoles, qResult, fullName>>

NameNext == NameSplit

SpecName == NameInit /\ [][NameNext]_vars

----------------------------------------------------------------------------
(* GetUserFromLDAP *)

\* username := c.Params(":username")
Usernames == {"", "alice"}

isMatchToLDAPGroup_AnyRole(u, groupConfig) == u.OrgRoles[groupConfig.OrgID] # ""

\* return user.OrgRoles[groupConfig.OrgID] == groupConfig.OrgRole
isMatchToLDAPGroup(u, groupConfig) ==
    u.OrgRoles[groupConfig.OrgID] = groupConfig.OrgRole

RoleLoopBody_SkipUnmatched(u, g, orgRoles) ==
    IF isMatchToLDAPGroup(u, g)
    THEN Append(orgRoles, [OrgId |-> g.OrgID, OrgName |-> "",
                           OrgRole |-> u.OrgRoles[g.OrgID], GroupDN |-> g.GroupDN])
    ELSE orgRoles

\* body of "for _, g := range serverConfig.Groups": role := &RoleDTO{} and
\* one append in either branch
RoleLoopBody(u, g, orgRoles) ==
    IF isMatchToLDAPGroup(u, g)
    THEN Append(orgRoles, [OrgId |-> g.OrgID, OrgName |-> "",
                           OrgRole |-> u.OrgRoles[g.OrgID], GroupDN |-> g.GroupDN])
    ELSE Append(orgRoles, [OrgId |-> g.OrgID, OrgName |-> "",
                           OrgRole |-> "", GroupDN |-> g.GroupDN])

\* orgRoles := []RoleDTO{}; for _, g := range serverConfig.Groups { ... }
RECURSIVE RoleLoop(_, _, _)
RoleLoop(u, gs, orgRoles) ==
    IF gs = <<>>
    THEN orgRoles
    ELSE RoleLoop(u, Tail(gs), RoleLoopBody(u, Head(gs), orgRoles))

\* orgNamesById := map[int64]string{}
\* for _, org := range q.Result { orgNamesById[org.Id] = org.Name }
RECURSIVE orgNamesById(_, _)
orgNamesById(result, m) ==
    IF result = <<>>
    THEN m
    ELSE orgNamesById(Tail(result), [m EXCEPT ![Head(result).Id] = Head(result).Name])

\* for i, orgDTO := range user.OrgRoles {
\*     orgName := orgNamesById[orgDTO.OrgId]
\*     if orgName != "" { user.OrgRoles[i].OrgName = orgName }
\*     else { return errOrganizationNotFound(orgDTO.OrgId) } }
\* return nil
RECURSIVE FillOrgNames(_, _, _)
FillOrgNames(orgRoles, i, m) ==
    IF i > Len(orgRoles)
    THEN [err |-> "nil", OrgRoles |-> orgRoles]
    ELSE LET orgName == m[orgRoles[i].OrgId] IN
         IF orgName # ""
         THEN FillOrgNames([orgRoles EXCEPT ![i].OrgName = orgName], i + 1, m)
         ELSE [err |-> "errOrganizationNotFound", OrgRoles |-> orgRoles]

\* FetchOrgs, given what bus.Dispatch(q) returned and left in q.Result
FetchOrgs(orgRoles, dispatchErr, result) ==
    IF dispatchErr # "nil"
    THEN [err |-> dispatchErr, OrgRoles |-> orgRoles]
    ELSE FillOrgNames(orgRoles, 1, orgNamesById(result, [id \in OrgIds |-> ""]))

UserInit ==
    /\ pc = "IsEnabled"
    /\ resp = NoResponse
    /\ AdminUser = "admin"
    /\ LDAPAllowSignup = FALSE
    /\ queryResult = <<>>
    /\ user = <<>>
    /\ err = "nil"
    /\ fetchCalls = <<>>
    /\ lookupCalls = <<>>
    /\ disableCalls = <<>>
    /\ upsertCalls = <<>>
    /\ groups = <<>>
    /\ name = <<>>
    /\ surname = <<>>
    /\ OrgRoles = <<>>
    /\ qResult = <<>>
    /\ fullName = <<>>

\* if !ldap.IsEnabled() { return Error(400, ...) }
UserIsEnabled ==
    /\ pc = "IsEnabled"
    /\ \E enabled \in BOOLEAN :
         IF enabled
         THEN /\ pc' = "getLDAPConfig"
              /\ resp' = resp
         ELSE /\ pc' = "done"
              /\ resp' = Error(400, "LDAP is not enabled")
    /\ UNCHANGED <<AdminUser, LDAPAllowSignup, user, err, syncVars, userVars, fullName>>

\* ldapConfig, err := getLDAPConfig(); if err != nil { return Error(400, ...) }
UserGetLDAPConfig ==
    /\ pc = "getLDAPConfig"
    /\ \E e \in {"nil", "error"} :
         /\ err' = e
         /\ IF e = "nil"
            THEN /\ pc' = "User"
                 /\ resp' = resp
            ELSE /\ pc' = "done"
                 /\ resp' = Error(400, "Failed to obtain the LDAP configuration")
    /\ UNCHANGED <<AdminUser, LDAPAllowSignup, user, syncVars, userVars, fullName>>

\* username := c.Params(":username"); if len(username) == 0 { return Error(400) }
\* user, serverConfig, err := ldap.User(username)
\* if user == nil { return Error(404, ...) }
UserLookup ==
    /\ pc = "User"
    /\ \E username \in Usernames :
         IF username = ""
         THEN /\ resp' = Error(400, "Validation error. You must specify an username")
              /\ pc' = "done"
              /\ UNCHANGED <<user, groups, err, lookupCalls>>
         ELSE \/ \E u \in ExternalUserInfo, gs \in SeqsUpTo(GroupToOrgRole, MaxRules) :
                   /\ u.Login = username
                   /\ user' = <<u>>
                   /\ groups' = gs
                   /\ err' = "nil"
                   /\ lookupCalls' = Append(lookupCalls,
                                            [username |-> username, user |-> <<u>>, err |-> "nil"])
                   /\ pc' = "splitName"
                   /\ resp' = resp
              \/ \E e \in {"ErrCouldNotFindUser", "error"} :
                   /\ user' = <<>>
                   /\ groups' = groups
                   /\ err' = e
                   /\ lookupCalls' = Append(lookupCalls,
                                            [username |-> username, user |-> <<>>, err |-> e])
                   /\ pc' = "done"
                   /\ resp' = Error(404, "No user was found on the LDAP server(s)")
    /\ UNCHANGED <<AdminUser, LDAPAllowSignup, queryResult, fetchCalls, disableCalls,
                   upsertCalls, name, surname, OrgRoles, qResult, fullName>>

\* name, surname := splitName(user.Name); u := &LDAPUserDTO{...}
\* orgRoles := []RoleDTO{}; for ... ; u.OrgRoles = orgRoles
UserMapRoles ==
    /\ pc = "splitName"
    /\ fullName' = user[1].Name
    /\ name' = splitName(user[1].Name)[1]
    /\ surname' = splitName(user[1].Name)[2]
    /\ OrgRoles' = RoleLoop(user[1], groups, <<>>)
    /\ pc' = "FetchOrgs"
    /\ UNCHANGED <<resp, AdminUser, LDAPAllowSignup, user, err, syncVars, groups, qResult>>

\* err = u.FetchOrgs(): one SearchOrgsQuery is dispatched; the store answers
\* with an error or with a list of organizations
UserFetchOrgs ==
    /\ pc = "FetchOrgs"
    /\ \/ \E result \in SeqsUpTo(OrgDTO, MaxOrgs) :
            /\ qResult' = result
            /\ err' = FetchOrgs(OrgRoles, "nil", result).err
            /\ OrgRoles' = FetchOrgs(OrgRoles, "nil", result).OrgRoles
       \/ /\ qResult' = <<>>
          /\ err' = FetchOrgs(OrgRoles, "error", <<>>).err
          /\ OrgRoles' = FetchOrgs(OrgRoles, "error", <<>>).OrgRoles
    /\ pc' = "FetchOrgsReturned"
    /\ UNCHANGED <<resp, AdminUser, LDAPAllowSignup, user, syncVars, groups,
                   name, surname, fullName>>

\* if err != nil { return Error(400, "An oganization was not found ...") }
UserFetchOrgsReturned ==
    /\ pc = "FetchOrgsReturned"
    /\ IF err # "nil"
       THEN /\ resp' = Error(400, "An oganization was not found - Please verify your LDAP configuration")
            /\ pc' = "done"
       ELSE /\ resp' = resp
            /\ pc' = "Teams"
    /\ UNCHANGED <<AdminUser, LDAPAllowSignup, user, err, syncVars, userVars, fullName>>

\* cmd := &models.GetTeamsForLDAPGroupCommand{Groups: user.Groups}
\* err = bus.Dispatch(cmd)
\* if err != bus.ErrHandlerNotFound && err != nil { return Error(400, ...) }
\* u.Teams = cmd.Result; return JSON(200, u)
UserTeams ==
    /\ pc = "Teams"
    /\ \E e \in {"nil", "ErrHandlerNotFound", "error"} :
         /\ err' = e
         /\ resp' = IF e # "ErrHandlerNotFound" /\ e # "nil"
                    THEN Error(400, "Unable to find the teams for this user")
                    ELSE JSON(200, "u")
    /\ pc' = "done"
    /\ UNCHANGED <<AdminUser, LDAPAllowSignup, user, syncVars, userVars, fullName>>

UserNext ==
    \/ UserIsEnabled
    \/ UserGetLDAPConfig
    \/ UserLookup
    \/ UserMapRoles
    \/ UserFetchOrgs
    \/ UserFetchOrgsReturned
    \/ UserTeams

SpecUser == UserInit /\ [][UserNext]_vars

----------------------------------------------------------------------------
(* Claims about PostSyncUserWithLDAP *)

Lookup == lookupCalls[1]

Mutations == Len(disableCalls) + Len(upsertCalls)

\* C1: a directory lookup error other than "user not found" is propagated
\* to the caller as a failure, and neither a disable call nor an upsert call
\* is issued for that request.
C1_OtherLookupErrorPropagates ==
    (lookupCalls # <<>> /\ Lookup.err = "error") =>
        /\ disableCalls = <<>>
        /\ upsertCalls = <<>>
        /\ pc = "done" => resp.status >= 400

\* C2: when the lookup reports "user not found" and the internal user's login
\* is the configured super-administrator login, the request ends with an error
\* and neither a disable call nor an upsert call is issued.
C2_SuperAdminRefused ==
    (pc = "done" /\ lookupCalls # <<>> /\ Lookup.err = "ErrCouldNotFindUser"
       /\ queryResult[1].Login = AdminUser) =>
        /\ resp.status = 400
        /\ disableCalls = <<>>
        /\ upsertCalls = <<>>

C2_Witness ==
    /\ pc = "done"
    /\ lookupCalls # <<>>
    /\ Lookup.err = "ErrCouldNotFindUser"
    /\ queryResult[1].Login = AdminUser
    /\ resp.status = 400

\* C3: when the lookup reports "user not found" and the internal user's login
\* is not the super-administrator login, exactly one disable call is issued,
\* for that login, no upsert call is issued, and the request ends successfully.
C3_AbsentUserDisabled ==
    (pc = "done" /\ lookupCalls # <<>> /\ Lookup.err = "ErrCouldNotFindUser"
       /\ queryResult[1].Login # AdminUser) =>
        /\ disableCalls = <<queryResult[1].Login>>
        /\ upsertCalls = <<>>
        /\ resp.status = 200

C3_Witness ==
    /\ pc = "done"
    /\ lookupCalls # <<>>
    /\ Lookup.err = "ErrCouldNotFindUser"
    /\ queryResult[1].Login # AdminUser
    /\ Len(disableCalls) = 1

\* C4: when the lookup succeeds, exactly one upsert call is issued, carrying
\* the external user record the directory just returned and the configured
\* signup-allowed switch, and no disable call is issued.
C4_FoundUserUpserted ==
    (pc = "done" /\ lookupCalls # <<>> /\ Lookup.err = "nil") =>
        /\ upsertCalls = <<[ExternalUser |-> Lookup.user,
                            SignupAllowed |-> LDAPAllowSignup]>>
        /\ Lookup.user # <<>>
        /\ disableCalls = <<>>

C4_Witness ==
    /\ pc = "done"
    /\ lookupCalls # <<>>
    /\ Lookup.err = "nil"
    /\ Len(upsertCalls) = 1
    /\ ~LDAPAllowSignup

\* C10: a request that ends before the internal user was fetched (LDAP
\* disabled, configuration not loaded, user not fetched) ends with an error
\* response and issues no directory lookup, disable or upsert; every disable
\* or upsert follows a successful internal-user fetch and a completed
\* directory lookup; at most one of them is issued per request.
C10_MutationOnlyAfterFetchAndLookup ==
    /\ (pc = "done" /\ queryResult = <<>>) =>
          /\ resp.status >= 400
          /\ lookupCalls = <<>>
          /\ Mutations = 0
    /\ pc \in {"User", "Decide", "Upsert"} => queryResult # <<>>
    /\ lookupCalls # <<>> => queryResult # <<>>
    /\ Mutations > 0 => (queryResult # <<>> /\ Len(lookupCalls) = 1)
    /\ Mutations <= 1

C10_Witness ==
    /\ pc = "done"
    /\ queryResult = <<>>
    /\ Len(fetchCalls) = 2
    /\ resp.status = 404

----------------------------------------------------------------------------
(* Claims about GetUserFromLDAP, FetchOrgs and splitName *)

ResultIds == {qResult[j].Id : j \in 1..Len(qResult)}

\* C5: FetchOrgs fails with the organization-not-found error if and only if
\* some assignment's organization id is absent from the organization store's
\* result set.  Stated for the calls in which the store answered.
C5_NotFoundIffIdAbsent ==
    (pc = "FetchOrgsReturned" /\ err # "error") =>
        (err = "errOrganizationNotFound"
           <=> \E i \in 1..Len(OrgRoles) : OrgRoles[i].OrgId \notin ResultIds)

\* C6: whenever FetchOrgs returns an error, the assignment list is identical
\* to what it was before the call, which is what the rule loop produced.
C6_NoMutationOnError ==
    (pc = "FetchOrgsReturned" /\ err # "nil") =>
        OrgRoles = RoleLoop(user[1], groups, <<>>)

\* C7: the rule loop produces exactly len(rules) assignments, and the i-th
\* assignment carries the organization id and the group identifier of the
\* i-th rule.
C7_OneAssignmentPerRuleInOrder ==
    pc = "FetchOrgs" =>
        /\ Len(OrgRoles) = Len(groups)
        /\ \A i \in 1..Len(groups) :
             /\ i <= Len(OrgRoles)
             /\ OrgRoles[i].OrgId = groups[i].OrgID
             /\ OrgRoles[i].GroupDN = groups[i].GroupDN

C7_Witness ==
    /\ pc = "FetchOrgs"
    /\ Len(groups) = 2
    /\ groups[1] # groups[2]
    /\ isMatchToLDAPGroup(user[1], groups[1])
    /\ ~isMatchToLDAPGroup(user[1], groups[2])
    /\ Len(OrgRoles) = 2

\* C8: the assignment emitted for rule r has role r.Role if the user's role
\* in r's organization equals r.Role, and the empty role otherwise; changing
\* only the user's role in another organization never changes the assignment
\* emitted for r.
C8_RoleFromOwnOrganizationOnly ==
    pc = "FetchOrgs" =>
        /\ \A i \in 1..Len(groups) :
             OrgRoles[i].OrgRole =
                 IF user[1].OrgRoles[groups[i].OrgID] = groups[i].OrgRole
                 THEN groups[i].OrgRole
                 ELSE ""
        /\ \A o \in OrgIds, r \in RoleTypes :
             LET other == [user[1] EXCEPT !.OrgRoles[o] = r] IN
             \A i \in 1..Len(groups) :
                 groups[i].OrgID # o => RoleLoop(other, groups, <<>>)[i] = OrgRoles[i]

C8_Witness ==
    /\ pc = "FetchOrgs"
    /\ Len(groups) = 2
    /\ groups[1].OrgID # groups[2].OrgID
    /\ user[1].OrgRoles[groups[1].OrgID] = "Viewer"
    /\ groups[1].OrgRole = "Admin"
    /\ OrgRoles[1].OrgRole = ""
    /\ OrgRoles[2].OrgRole = "Admin"

\* C9: over the whitespace-delimited tokens of its input, splitName returns
\* two empty strings for zero tokens, the token and an empty string for one
\* token, and the first and the second token for two or more tokens.
C9_SplitNameByTokenCount ==
    pc = "done" =>
        LET tokens == SplitString(fullName) IN
        /\ Len(tokens) = 0 => (name = <<>> /\ surname = <<>>)
        /\ Len(tokens) = 1 => (name = tokens[1] /\ surname = <<>>)
        /\ Len(tokens) >= 2 => (name = tokens[1] /\ surname = tokens[2])
        /\ fullName = <<>> => (name = <<>> /\ surname = <<>>)
        /\ fullName = <<"a", "b">> => (name = <<"a", "b">> /\ surname = <<>>)
        /\ fullName = <<"a", " ", "b", " ", "a">> => (name = <<"a">> /\ surname = <<"b">>)

C9_Witness ==
    /\ pc = "done"
    /\ Len(SplitString(fullName)) = 3
    /\ name = <<"a">>
    /\ surname = <<"b">>

=============================================================================
